---- MODULE Spec2Model ----
(***************************************************************************)
(* Dashboard front end of the anomaly detection system:                    *)
(*   - AnomalyList (components/AnomalyList.js): polling of classified      *)
(*     records with a client-side seen-id set, and the Slack control panel *)
(*   - LogViewer (components/LogViewer.js): the live log stream viewer     *)
(* together with the back-end parts they talk to (notification dispatcher, *)
(* live stream), which are modelled from the specification.                *)
(*                                                                         *)
(* React state is modelled at commit granularity: the synchronous part of  *)
(* a handler and each continuation after an await are one action; all the  *)
(* set-state calls of one continuation are batched into one commit.  An    *)
(* async function keeps the values of the render it was created in (its    *)
(* closure), so a request in flight carries the activeTab and the          *)
(* seenRecordIds it captured.                                              *)
(***************************************************************************)
EXTENDS Integers, FiniteSets, Sequences, Bags, TLC

\* ------------------------------------------------------------------ bounds
MaxId == 3            \* record ids the list can be given are 1..MaxId
MaxAnomalies == 3     \* anomaly records the dispatcher can be given
MaxInFlight == 2      \* fetchData calls in flight at once
MaxRetry == 2         \* cap of the retry counter
MaxStatus == 2        \* getSlackStatus requests in flight at once
MaxSync == 2          \* syncToSlack calls in flight at once
MaxToggle == 1        \* toggleAutoSend calls in flight at once
BatchCap == 2         \* batch cap of the dispatcher
MaxExtra == 3         \* log records published beyond the buffer size
MaxRecords == 4       \* records the broker delivers
QueueCap == 2         \* records a subscriber's outbound queue retains
MaxAttempts == 2      \* persistence attempts per record

\* ------------------------------------------------------- program constants
MaxLogs == 100        \* slice(-100)

Tabs == {"anomaly", "unidentified"}
Ids == 1..MaxId
\* the classification of a record: the last id is unidentified
ClassOf(id) == IF id < MaxId THEN "anomaly" ELSE "unidentified"
IdsOf(tab) == {i \in Ids : ClassOf(i) = tab}
AnomalyIds == 1..MaxAnomalies
Viewers == {"v1", "v2"}
MaxEvents == MaxLogs + MaxExtra

VARIABLES
  \* ---- AnomalyList: record list
  activeTab, anomalyParams, loading, error, retryCount, seenRecordIds,
  fetches,        \* bag of fetchData calls awaiting fetchAnomalyParams
  judged,         \* the ids some completed fetchData found in newRecords
                  \* since the seen set was last cleared
  shownFor,       \* the classification_type of the fetch that returned the
                  \* list in anomalyParams ("none": the initial empty list)
  \* ---- AnomalyList: Slack panel
  slackStatus, slackSending,
  syncs,          \* bag of syncToSlack calls, by phase
  toggles,        \* bag of toggleAutoSend calls, by phase
  statusReqs,     \* bag of fetchSlackStatus calls
  uncaught,       \* an error escaped a handler
  \* ---- back end: notification dispatcher
  anomalies, sent_record_ids, sent_count, auto_send_enabled, task_running,
  dispatcher, batch, delivered, lastFailed,
  \* ---- LogViewer and the live stream
  logs, connectionError, closed, published, accepted,
  lastEvent,      \* the type of the last event the stream sent
  skipped,        \* a 'log' event without usable data was sent
  \* ---- back end: ingestion path, aggregator and broadcast hub
  consumerPc,     \* the step of 4.1 the Ingestion Consumer is at
  cur,            \* the kind of the record being processed ("none" between records)
  offset,         \* records pulled from the broker
  attempts,       \* persistence attempts made for the current record
  classification, \* the ClassifiedRecord's classification ("none" before step 2)
  classifiedCount,\* records the Classifier has classified
  malformedCount, \* records skipped with MalformedRecordError
  lostCount,      \* records logged as lost to persistence
  counters,       \* StatCounters
  subscribers,    \* the hub's active Subscribers
  queue           \* each Subscriber's outbound queue

listVars == <<activeTab, anomalyParams, loading, error, retryCount,
              seenRecordIds, fetches, judged, shownFor>>
panelVars == <<slackStatus, slackSending, syncs, toggles, statusReqs, uncaught>>
backendVars == <<anomalies, sent_record_ids, sent_count, auto_send_enabled,
                 task_running, dispatcher, batch, delivered, lastFailed>>
logVars == <<logs, connectionError, closed, published, accepted,
            lastEvent, skipped>>
pipeVars == <<consumerPc, cur, offset, attempts, classification,
              classifiedCount, malformedCount, lostCount, counters,
              subscribers, queue>>
vars == <<listVars, panelVars, backendVars, logVars, pipeVars>>

\* slackStatus before the first status response (null in the code); it is a
\* record so that it compares with a status, and no status has a count of -1
None == [auto_send_enabled |-> FALSE, sent_records_count |-> -1,
         task_running |-> FALSE]

Add(bag, e) == bag (+) SetToBag({e})
Remove(bag, e) == bag (-) SetToBag({e})
Min(a, b) == IF a < b THEN a ELSE b

\* ===================================================== AnomalyList: records

\* fetchData(forceUpdate), up to the await: the loading flag and the request.
\* The call keeps the activeTab and seenRecordIds of the render it runs in.
StartFetch(force, tab, seen) ==
  /\ loading' = force
  /\ fetches' = Add(fetches, [force |-> force, tab |-> tab, seen |-> seen])

\* data.filter(item => !seenRecordIds.has(item.id))
NewRecords(data, seen) == data \ seen

\* fetchData that stores the seen set computed from its own render's set
\* instead of using the functional update
MutFetchSuccess(f, data) ==
  /\ BagIn(f, fetches)
  /\ data \subseteq IdsOf(f.tab)
  /\ fetches' = Remove(fetches, f)
  /\ LET newRecords == NewRecords(data, f.seen) IN
     /\ IF newRecords # {} \/ f.force
        THEN /\ anomalyParams' = data
             /\ shownFor' = f.tab
             /\ error' = FALSE
             /\ seenRecordIds' = f.seen \cup data
             /\ retryCount' = 0
        ELSE UNCHANGED <<anomalyParams, shownFor, error, seenRecordIds, retryCount>>
     /\ judged' = judged \cup newRecords
  /\ loading' = IF f.force THEN FALSE ELSE loading
  /\ UNCHANGED <<activeTab, panelVars, backendVars, logVars, pipeVars>>

\* fetchData after the await, request succeeded with `data`
FetchSuccess(f, data) ==
  /\ BagIn(f, fetches)
  /\ data \subseteq IdsOf(f.tab)
  /\ fetches' = Remove(fetches, f)
  /\ LET newRecords == NewRecords(data, f.seen) IN
     /\ IF newRecords # {} \/ f.force
        THEN /\ anomalyParams' = data
             /\ shownFor' = f.tab
             /\ error' = FALSE
             /\ seenRecordIds' = seenRecordIds \cup data
             /\ retryCount' = 0
        ELSE UNCHANGED <<anomalyParams, shownFor, error, seenRecordIds, retryCount>>
     /\ judged' = judged \cup newRecords
  /\ loading' = IF f.force THEN FALSE ELSE loading
  /\ UNCHANGED <<activeTab, panelVars, backendVars, logVars, pipeVars>>

\* fetchData whose catch block also empties the displayed list
MutFetchFail(f) ==
  /\ BagIn(f, fetches)
  /\ retryCount < MaxRetry
  /\ fetches' = Remove(fetches, f)
  /\ error' = TRUE
  /\ retryCount' = retryCount + 1
  /\ anomalyParams' = {}
  /\ loading' = IF f.force THEN FALSE ELSE loading
  /\ UNCHANGED <<activeTab, shownFor, seenRecordIds, judged,
                 panelVars, backendVars, logVars, pipeVars>>

\* fetchData after the await, request failed
FetchFail(f) ==
  /\ BagIn(f, fetches)
  /\ retryCount < MaxRetry
  /\ fetches' = Remove(fetches, f)
  /\ error' = TRUE
  /\ retryCount' = retryCount + 1
  /\ loading' = IF f.force THEN FALSE ELSE loading
  /\ UNCHANGED <<activeTab, anomalyParams, shownFor, seenRecordIds, judged,
                 panelVars, backendVars, logVars, pipeVars>>

\* fetchSlackStatus(), up to the await
StartStatus(origin) ==
  statusReqs' = Add(statusReqs, [origin |-> origin, phase |-> "req", snap |-> None])

\* the interval callback of the auto-refresh effect: fetchData(false)
PeriodicCheck ==
  /\ BagCardinality(fetches) < MaxInFlight
  /\ StartFetch(FALSE, activeTab, seenRecordIds)
  /\ UNCHANGED <<activeTab, anomalyParams, shownFor, error, retryCount,
                 seenRecordIds, judged, panelVars, backendVars, logVars, pipeVars>>

\* handleRefresh: the Retry button of the error alert
HandleRefresh ==
  /\ error
  /\ BagCardinality(fetches) < MaxInFlight
  /\ StartFetch(TRUE, activeTab, seenRecordIds)
  /\ UNCHANGED <<activeTab, anomalyParams, shownFor, error, retryCount,
                 seenRecordIds, judged, panelVars, backendVars, logVars, pipeVars>>

\* an activeTab effect that also synchronises with Slack on every tab change
MutHandleTabChange(newValue) ==
  /\ newValue # activeTab
  /\ BagCardinality(fetches) < MaxInFlight
  /\ BagCardinality(statusReqs) < MaxStatus
  /\ activeTab' = newValue
  /\ seenRecordIds' = {}
  /\ judged' = {}
  /\ StartFetch(TRUE, newValue, seenRecordIds)
  /\ StartStatus("effect")
  /\ slackSending' = TRUE
  /\ syncs' = Add(syncs, [phase |-> "req"])
  /\ UNCHANGED <<anomalyParams, shownFor, error, retryCount, slackStatus,
                 toggles, uncaught, backendVars, logVars, pipeVars>>

\* handleTabChange and the activeTab effect it causes: the effect runs in the
\* render that has the new tab and still the old seen set
HandleTabChange(newValue) ==
  /\ newValue # activeTab
  /\ BagCardinality(fetches) < MaxInFlight
  /\ BagCardinality(statusReqs) < MaxStatus
  /\ activeTab' = newValue
  /\ seenRecordIds' = {}
  /\ judged' = {}
  /\ StartFetch(TRUE, newValue, seenRecordIds)
  /\ StartStatus("effect")
  /\ UNCHANGED <<anomalyParams, shownFor, error, retryCount, slackStatus,
                 slackSending, syncs, toggles, uncaught, backendVars, logVars, pipeVars>>

\* ================================================= AnomalyList: Slack panel

\* number of copies in `bag` of the elements of `elems`
Count(bag, elems) ==
  LET Sum[S \in SUBSET elems] ==
        IF S = {} THEN 0
        ELSE LET x == CHOOSE y \in S : TRUE IN bag[x] + Sum[S \ {x}]
  IN Sum[elems]

StatusOf(origin) == {r \in BagToSet(statusReqs) : r.origin = origin}
\* syncToSlack calls that have not reached their finally block
SyncFlows == BagCardinality(syncs) + Count(statusReqs, StatusOf("sync"))
\* toggleAutoSend calls that have not returned
ToggleFlows == BagCardinality(toggles) + Count(statusReqs, StatusOf("toggle"))
\* sendNewDataToSlack requests not yet answered
SendRequests == Count(syncs, {x \in BagToSet(syncs) : x.phase \in {"req", "srv"}})

\* the button without the slackSending test
MutSendButtonEnabled ==
  /\ slackStatus # None
  /\ slackStatus.task_running

\* disabled={slackSending || !slackStatus.task_running}, inside {slackStatus && ...}
SendButtonEnabled ==
  /\ slackStatus # None
  /\ ~slackSending
  /\ slackStatus.task_running

\* syncToSlack up to the first await (onClick of "Send New to Slack")
SyncToSlack ==
  /\ SendButtonEnabled
  /\ SyncFlows < MaxSync
  /\ slackSending' = TRUE
  /\ syncs' = Add(syncs, [phase |-> "req"])
  /\ UNCHANGED <<slackStatus, toggles, statusReqs, uncaught,
                 listVars, backendVars, logVars, pipeVars>>

\* syncToSlack: sendNewDataToSlack resolved, the status refresh starts
SyncSent(s) ==
  /\ BagIn(s, syncs) /\ s.phase = "ok"
  /\ BagCardinality(statusReqs) < MaxStatus
  /\ syncs' = Remove(syncs, s)
  /\ StartStatus("sync")
  /\ UNCHANGED <<slackStatus, slackSending, toggles, uncaught,
                 listVars, backendVars, logVars, pipeVars>>

\* syncToSlack without its catch block: the rejection escapes, finally runs
MutSyncFailed(s) ==
  /\ BagIn(s, syncs) /\ s.phase = "err"
  /\ syncs' = Remove(syncs, s)
  /\ slackSending' = FALSE
  /\ uncaught' = TRUE
  /\ UNCHANGED <<slackStatus, toggles, statusReqs, listVars, backendVars, logVars, pipeVars>>

\* syncToSlack: sendNewDataToSlack rejected; catch, then finally
SyncFailed(s) ==
  /\ BagIn(s, syncs) /\ s.phase = "err"
  /\ syncs' = Remove(syncs, s)
  /\ slackSending' = FALSE
  /\ UNCHANGED <<slackStatus, toggles, statusReqs, uncaught,
                 listVars, backendVars, logVars, pipeVars>>

\* toggleAutoSend that also clears the sending flag
MutToggleAutoSend ==
  /\ slackStatus # None
  /\ BagCardinality(toggles) + Count(statusReqs, StatusOf("toggle")) < MaxToggle
  /\ toggles' = Add(toggles, [phase |-> "req",
                              newState |-> ~slackStatus.auto_send_enabled])
  /\ slackSending' = FALSE
  /\ UNCHANGED <<slackStatus, syncs, statusReqs, uncaught,
                 listVars, backendVars, logVars, pipeVars>>

\* toggleAutoSend up to the first await (onClick of "Enable/Disable Auto")
ToggleAutoSend ==
  /\ slackStatus # None
  /\ ToggleFlows < MaxToggle
  /\ toggles' = Add(toggles, [phase |-> "req",
                              newState |-> ~slackStatus.auto_send_enabled])
  /\ UNCHANGED <<slackStatus, slackSending, syncs, statusReqs, uncaught,
                 listVars, backendVars, logVars, pipeVars>>

\* toggleAutoSend: toggleSlackAutoSend resolved, the status refresh starts
ToggleDone(t) ==
  /\ BagIn(t, toggles) /\ t.phase = "ok"
  /\ BagCardinality(statusReqs) < MaxStatus
  /\ toggles' = Remove(toggles, t)
  /\ StartStatus("toggle")
  /\ UNCHANGED <<slackStatus, slackSending, syncs, uncaught,
                 listVars, backendVars, logVars, pipeVars>>

\* toggleAutoSend: toggleSlackAutoSend rejected; catch
ToggleFailed(t) ==
  /\ BagIn(t, toggles) /\ t.phase = "err"
  /\ toggles' = Remove(toggles, t)
  /\ UNCHANGED <<slackStatus, slackSending, syncs, statusReqs, uncaught,
                 listVars, backendVars, logVars, pipeVars>>

\* syncToSlack without its finally block after the status refresh
MutStatusDone(r) ==
  /\ BagIn(r, statusReqs) /\ r.phase \in {"resp", "err"}
  /\ statusReqs' = Remove(statusReqs, r)
  /\ slackStatus' = IF r.phase = "resp" THEN r.snap ELSE slackStatus
  /\ UNCHANGED <<slackSending, syncs, toggles, uncaught, listVars, backendVars, logVars, pipeVars>>

\* fetchSlackStatus after the await, and what its caller does next:
\* syncToSlack runs its finally block, the other callers do nothing
StatusDone(r) ==
  /\ BagIn(r, statusReqs) /\ r.phase \in {"resp", "err"}
  /\ statusReqs' = Remove(statusReqs, r)
  /\ slackStatus' = IF r.phase = "resp" THEN r.snap ELSE slackStatus
  /\ slackSending' = IF r.origin = "sync" THEN FALSE ELSE slackSending
  /\ UNCHANGED <<syncs, toggles, uncaught, listVars, backendVars, logVars, pipeVars>>

\* ============================== back end: requests and the dispatcher (§4.6)

\* GET status: a read-only snapshot of NotificationState
Status == [auto_send_enabled |-> auto_send_enabled,
           sent_records_count |-> sent_count,
           task_running |-> task_running]

StatusServe(r) ==
  /\ BagIn(r, statusReqs) /\ r.phase = "req"
  /\ statusReqs' = Add(Remove(statusReqs, r), [r EXCEPT !.phase = "resp", !.snap = Status])
  /\ UNCHANGED <<slackStatus, slackSending, syncs, toggles, uncaught,
                 listVars, backendVars, logVars, pipeVars>>

\* the request or its response is lost
StatusLost(r) ==
  /\ BagIn(r, statusReqs) /\ r.phase = "req"
  /\ statusReqs' = Add(Remove(statusReqs, r), [r EXCEPT !.phase = "err"])
  /\ UNCHANGED <<slackStatus, slackSending, syncs, toggles, uncaught,
                 listVars, backendVars, logVars, pipeVars>>

\* selection rule: the unsent anomalies, oldest first, up to the batch cap
\* (ids are assigned in timestamp order)
Unsent == anomalies \ sent_record_ids
\* a selection that forgets the sent set
MutSelection == {i \in anomalies : Cardinality({j \in anomalies : j < i}) < BatchCap}
Selection == {i \in Unsent : Cardinality({j \in Unsent : j < i}) < BatchCap}

\* Idle -> Sending, provided no send is in flight and there is something to send
TriggerSend ==
  IF dispatcher = "Idle" /\ Selection # {}
  THEN /\ dispatcher' = "Sending"
       /\ batch' = Selection
  ELSE UNCHANGED <<dispatcher, batch>>

\* the manual trigger request is served
SyncServe(s) ==
  /\ BagIn(s, syncs) /\ s.phase = "req"
  /\ TriggerSend
  /\ syncs' = Add(Remove(syncs, s),
                  [phase |-> IF dispatcher = "Idle" /\ Selection # {}
                             THEN "srv" ELSE "ok"])
  /\ UNCHANGED <<slackStatus, slackSending, toggles, statusReqs, uncaught,
                 anomalies, sent_record_ids, sent_count, auto_send_enabled,
                 task_running, delivered, lastFailed, listVars, logVars, pipeVars>>

\* the manual trigger request never reaches the back end
SyncLost(s) ==
  /\ BagIn(s, syncs) /\ s.phase = "req"
  /\ syncs' = Add(Remove(syncs, s), [phase |-> "err"])
  /\ UNCHANGED <<slackStatus, slackSending, toggles, statusReqs, uncaught,
                 listVars, backendVars, logVars, pipeVars>>

\* the automatic timer fires
AutoTimer ==
  /\ auto_send_enabled
  /\ task_running
  /\ TriggerSend
  /\ UNCHANGED <<anomalies, sent_record_ids, sent_count, auto_send_enabled,
                 task_running, delivered, lastFailed, panelVars, listVars, logVars, pipeVars>>

\* every manual trigger waiting for the batch gets the batch's outcome
Answer(outcome) ==
  LET waiting == {x \in BagToSet(syncs) : x.phase = "srv"}
      n == Count(syncs, waiting)
      rest == [x \in BagToSet(syncs) \ waiting |-> syncs[x]]
  IN IF n = 0 THEN syncs
     ELSE rest (+) [x \in {[phase |-> outcome]} |-> n]

\* marking that counts the batch, not its ids
MutMarkSent ==
  /\ sent_record_ids' = sent_record_ids \cup batch
  /\ sent_count' = sent_count + 1

\* on success: mark every included id and increment the count, atomically
MarkSent ==
  /\ sent_record_ids' = sent_record_ids \cup batch
  /\ sent_count' = sent_count + Cardinality(batch)

\* Sending -> Idle: the sink accepted the batch
SinkSuccess ==
  /\ dispatcher = "Sending"
  /\ MarkSent
  /\ delivered' = [i \in AnomalyIds |-> IF i \in batch THEN Min(delivered[i] + 1, 2)
                                 ELSE delivered[i]]
  /\ lastFailed' = {}
  /\ dispatcher' = "Idle"
  /\ batch' = {}
  /\ syncs' = Answer("ok")
  /\ UNCHANGED <<anomalies, auto_send_enabled, task_running, slackStatus,
                 slackSending, toggles, statusReqs, uncaught, listVars, logVars, pipeVars>>

\* Sending -> Failed: the sink reported an error; nothing is marked
SinkError ==
  /\ dispatcher = "Sending"
  /\ lastFailed' = batch
  /\ dispatcher' = "Failed"
  /\ batch' = {}
  /\ syncs' = Answer("err")
  /\ UNCHANGED <<anomalies, sent_record_ids, sent_count, auto_send_enabled,
                 task_running, delivered, slackStatus, slackSending, toggles,
                 statusReqs, uncaught, listVars, logVars, pipeVars>>

\* Failed -> Idle: Failed is transient
FailedRevert ==
  /\ dispatcher = "Failed"
  /\ dispatcher' = "Idle"
  /\ UNCHANGED <<anomalies, sent_record_ids, sent_count, auto_send_enabled,
                 task_running, batch, delivered, lastFailed, panelVars,
                 listVars, logVars, pipeVars>>

\* setAutoSend(bool): the toggle request is served
ToggleServe(t) ==
  /\ BagIn(t, toggles) /\ t.phase = "req"
  /\ auto_send_enabled' = t.newState
  /\ toggles' = Add(Remove(toggles, t), [t EXCEPT !.phase = "ok"])
  /\ UNCHANGED <<anomalies, sent_record_ids, sent_count, task_running,
                 dispatcher, batch, delivered, lastFailed, slackStatus,
                 slackSending, syncs, statusReqs, uncaught, listVars, logVars, pipeVars>>

\* the toggle request is lost
ToggleLost(t) ==
  /\ BagIn(t, toggles) /\ t.phase = "req"
  /\ toggles' = Add(Remove(toggles, t), [t EXCEPT !.phase = "err"])
  /\ UNCHANGED <<slackStatus, slackSending, syncs, statusReqs, uncaught,
                 listVars, backendVars, logVars, pipeVars>>

\* the ingestion path stores a record classified as anomaly
Ingest(id) ==
  /\ id \in AnomalyIds \ anomalies
  /\ \A j \in anomalies : j < id
  /\ anomalies' = anomalies \cup {id}
  /\ UNCHANGED <<sent_record_ids, sent_count, auto_send_enabled, task_running,
                 dispatcher, batch, delivered, lastFailed, panelVars,
                 listVars, logVars, pipeVars>>

\* ============================================== LogViewer and the live stream

\* event.data of a server-sent event: empty, not JSON, or the JSON of a value
EventData == [kind : {"empty", "garbage"}, val : {0}]
JsonOf(v) == [kind |-> "json", val |-> v]

\* JSON.parse(event.data): throws unless the data is JSON
Parse(d) == IF d.kind = "json" THEN [ok |-> TRUE, value |-> d.val]
            ELSE [ok |-> FALSE, value |-> 0]

\* no slice at all
MutSliceLast(s, n) == s

\* s.slice(-n)
SliceLast(s, n) == IF Len(s) <= n THEN s ELSE SubSeq(s, Len(s) - n + 1, Len(s))

\* a listener that appends whatever it is given
MutLogListener(prevLogs, d) ==
  SliceLast(Append(prevLogs, Parse(d).value), MaxLogs)

\* the value the 'log' listener leaves in `logs`
LogListener(prevLogs, d) ==
  IF d.kind = "empty" THEN prevLogs
  ELSE IF ~Parse(d).ok THEN prevLogs
  ELSE SliceLast(Append(prevLogs, Parse(d).value), MaxLogs)

\* the 'log' listener got as far as setLogs
LogAccepted(d) == d.kind # "empty" /\ Parse(d).ok

\* a 'ping' listener that clears the flag before it parses the data
MutPingListener(prevError, d) == FALSE

\* the value the 'ping' listener leaves in `connectionError`
PingListener(prevError, d) == IF Parse(d).ok THEN FALSE ELSE prevError

\* an EventSource that is never closed
MutListening(v) == TRUE

\* an EventSource dispatches events to its listeners until it is closed
Listening(v) == ~closed[v]

\* a 'log' event with data d reaches every open EventSource
DispatchLog(d) ==
  /\ logs' = [v \in DOMAIN logs |->
                IF Listening(v) THEN LogListener(logs[v], d) ELSE logs[v]]
  /\ accepted' = [v \in DOMAIN accepted |->
                IF Listening(v) /\ LogAccepted(d) THEN accepted[v] + 1
                ELSE accepted[v]]

\* the stream publishes the next record; records are numbered as published
PublishLog ==
  /\ published < MaxEvents
  /\ published' = published + 1
  /\ DispatchLog(JsonOf(published + 1))
  /\ lastEvent' = "log"
  /\ UNCHANGED <<connectionError, closed, skipped, listVars, panelVars, backendVars, pipeVars>>

\* a 'log' event arrives with no data or with data that is not JSON
MalformedLog(d) ==
  /\ d \in EventData
  /\ DispatchLog(d)
  /\ lastEvent' = "badlog"
  /\ skipped' = TRUE
  /\ UNCHANGED <<connectionError, closed, published, listVars, panelVars, backendVars, pipeVars>>

\* a 'ping' event handled like a 'log' event
MutPing(d) ==
  /\ d \in EventData \cup {JsonOf(0)}
  /\ DispatchLog(JsonOf(0))
  /\ lastEvent' = "ping"
  /\ UNCHANGED <<connectionError, closed, published, skipped,
                 listVars, panelVars, backendVars, pipeVars>>

\* a 'ping' event with data d reaches every open EventSource
Ping(d) ==
  /\ d \in EventData \cup {JsonOf(0)}
  /\ connectionError' = [v \in DOMAIN connectionError |->
                IF Listening(v) THEN PingListener(connectionError[v], d)
                ELSE connectionError[v]]
  /\ lastEvent' = "ping"
  /\ UNCHANGED <<logs, accepted, closed, published, skipped,
                 listVars, panelVars, backendVars, pipeVars>>

\* handleError: the connection of viewer v reports an error
HandleError(v) ==
  /\ Listening(v)
  /\ connectionError' = [connectionError EXCEPT ![v] = TRUE]
  /\ UNCHANGED <<logs, accepted, closed, published, lastEvent, skipped,
                 listVars, panelVars, backendVars, pipeVars>>

\* viewer v unmounts: the effect cleanup calls eventSource.close(), and the
\* state of the component (logs, connectionError) goes with the component
Close(v) ==
  /\ closed' = [closed EXCEPT ![v] = TRUE]
  /\ logs' = [logs EXCEPT ![v] = <<>>]
  /\ accepted' = [accepted EXCEPT ![v] = 0]
  /\ connectionError' = [connectionError EXCEPT ![v] = FALSE]
  /\ UNCHANGED <<published, lastEvent, skipped, listVars, panelVars, backendVars, pipeVars>>

\* ======= back end: Ingestion Consumer, Classifier, Aggregator, Hub (§4.1-4.5)

\* what the broker can deliver: a record the rule flags, one it passes, one
\* without the signal fields the rule needs, one without a required field
Kinds == {"error", "info", "nosignal", "malformed"}
Classifications == {"normal", "anomaly", "unidentified"}

\* the Classifier: a pure function of the record (Scenario A's rule)
Classify(kind) ==
  CASE kind = "error" -> "anomaly"
    [] kind = "info" -> "normal"
    [] OTHER -> "unidentified"

\* snapshot(): the sum of the counts
CountSum == counters["normal"] + counters["anomaly"] + counters["unidentified"]

\* the consumer waits on the broker and gets the next record
Pull(kind) ==
  /\ consumerPc = "pull"
  /\ offset < MaxRecords
  /\ offset' = offset + 1
  /\ cur' = kind
  /\ consumerPc' = "validate"
  /\ UNCHANGED <<attempts, classification, classifiedCount, malformedCount,
                 lostCount, counters, subscribers, queue,
                 listVars, panelVars, backendVars, logVars>>

\* step 1: a malformed record is reported and skipped
Validate ==
  /\ consumerPc = "validate"
  /\ IF cur = "malformed"
     THEN /\ malformedCount' = malformedCount + 1
          /\ cur' = "none"
          /\ consumerPc' = "pull"
     ELSE /\ consumerPc' = "classify"
          /\ UNCHANGED <<malformedCount, cur>>
  /\ UNCHANGED <<offset, attempts, classification, classifiedCount, lostCount,
                 counters, subscribers, queue,
                 listVars, panelVars, backendVars, logVars>>

\* step 2: the Classifier makes the ClassifiedRecord
ClassifyStep ==
  /\ consumerPc = "classify"
  /\ classification' = Classify(cur)
  /\ classifiedCount' = classifiedCount + 1
  /\ attempts' = 0
  /\ consumerPc' = "persist"
  /\ UNCHANGED <<cur, offset, malformedCount, lostCount, counters, subscribers,
                 queue, listVars, panelVars, backendVars, logVars>>

\* step 3: the persistence write succeeded
PersistOk ==
  /\ consumerPc = "persist"
  /\ consumerPc' = "record"
  /\ UNCHANGED <<cur, offset, attempts, classification, classifiedCount,
                 malformedCount, lostCount, counters, subscribers, queue,
                 listVars, panelVars, backendVars, logVars>>

\* step 3: the persistence write failed; retried, and after the last attempt
\* the record is logged as lost and goes on to the Aggregator and the Hub
PersistFail ==
  /\ consumerPc = "persist"
  /\ attempts' = attempts + 1
  /\ IF attempts + 1 = MaxAttempts
     THEN /\ lostCount' = lostCount + 1
          /\ consumerPc' = "record"
     ELSE UNCHANGED <<lostCount, consumerPc>>
  /\ UNCHANGED <<cur, offset, classification, classifiedCount, malformedCount,
                 counters, subscribers, queue,
                 listVars, panelVars, backendVars, logVars>>

\* an Aggregator that counts only the records that were persisted
MutRecord ==
  /\ consumerPc = "record"
  /\ counters' = IF attempts = MaxAttempts THEN counters
                 ELSE [counters EXCEPT ![classification] = @ + 1]
  /\ consumerPc' = "forward"
  /\ UNCHANGED <<cur, offset, attempts, classification, classifiedCount,
                 malformedCount, lostCount, subscribers, queue,
                 listVars, panelVars, backendVars, logVars>>

\* step 4: record(classification) increments the matching counter
Record ==
  /\ consumerPc = "record"
  /\ counters' = [counters EXCEPT ![classification] = @ + 1]
  /\ consumerPc' = "forward"
  /\ UNCHANGED <<cur, offset, attempts, classification, classifiedCount,
                 malformedCount, lostCount, subscribers, queue,
                 listVars, panelVars, backendVars, logVars>>

\* a bounded queue: the last QueueCap records are retained, the oldest dropped
Enqueue(q, record) ==
  LET q2 == Append(q, record)
  IN IF Len(q2) > QueueCap THEN Tail(q2) ELSE q2

\* a publish that waits until every subscriber's queue has room
MutPublish(record) ==
  /\ \A s \in subscribers : Len(queue[s]) < QueueCap
  /\ queue' = [s \in Viewers |-> IF s \in subscribers
                                 THEN Append(queue[s], record) ELSE queue[s]]

\* publish(record): into the queue of every currently active subscriber
Publish(record) ==
  queue' = [s \in Viewers |-> IF s \in subscribers
                              THEN Enqueue(queue[s], record) ELSE queue[s]]

\* step 5: forward to the Broadcast Hub; the record is done
Forward ==
  /\ consumerPc = "forward"
  /\ Publish(offset)
  /\ cur' = "none"
  /\ classification' = "none"
  /\ consumerPc' = "pull"
  /\ UNCHANGED <<offset, attempts, classifiedCount, malformedCount, lostCount,
                 counters, subscribers,
                 listVars, panelVars, backendVars, logVars>>

\* subscribe(): a new Subscriber with a fresh empty queue
Subscribe(v) ==
  /\ v \notin subscribers
  /\ subscribers' = subscribers \cup {v}
  /\ queue' = [queue EXCEPT ![v] = <<>>]
  /\ UNCHANGED <<consumerPc, cur, offset, attempts, classification,
                 classifiedCount, malformedCount, lostCount, counters,
                 listVars, panelVars, backendVars, logVars>>

\* unsubscribe(): releases the queue
Unsubscribe(v) ==
  /\ v \in subscribers
  /\ subscribers' = subscribers \ {v}
  /\ queue' = [queue EXCEPT ![v] = <<>>]
  /\ UNCHANGED <<consumerPc, cur, offset, attempts, classification,
                 classifiedCount, malformedCount, lostCount, counters,
                 listVars, panelVars, backendVars, logVars>>

\* a subscriber's connection takes the next record of its queue
Receive(v) ==
  /\ v \in subscribers
  /\ queue[v] # <<>>
  /\ queue' = [queue EXCEPT ![v] = Tail(@)]
  /\ UNCHANGED <<consumerPc, cur, offset, attempts, classification,
                 classifiedCount, malformedCount, lostCount, counters,
                 subscribers, listVars, panelVars, backendVars, logVars>>

\* the ingestion path's own steps
ConsumerStep ==
  \/ Validate
  \/ ClassifyStep
  \/ PersistOk
  \/ PersistFail
  \/ Record
  \/ Forward

\* =========================================================== specifications

\* AnomalyList after its first render and effects: fetchData(true) and
\* fetchSlackStatus() are in flight
InitList ==
  /\ activeTab = "anomaly"
  /\ anomalyParams = {}
  /\ loading = TRUE
  /\ error = FALSE
  /\ retryCount = 0
  /\ seenRecordIds = {}
  /\ fetches = SetToBag({[force |-> TRUE, tab |-> "anomaly", seen |-> {}]})
  /\ judged = {}
  /\ shownFor = "none"
  /\ slackStatus = None
  /\ slackSending = FALSE
  /\ syncs = EmptyBag
  /\ toggles = EmptyBag
  /\ statusReqs = SetToBag({[origin |-> "effect", phase |-> "req", snap |-> None]})
  /\ uncaught = FALSE

InitBackend ==
  /\ anomalies = {}
  /\ sent_record_ids = {}
  /\ sent_count = 0
  /\ auto_send_enabled = FALSE
  /\ task_running = TRUE
  /\ dispatcher = "Idle"
  /\ batch = {}
  /\ delivered = [i \in AnomalyIds |-> 0]
  /\ lastFailed = {}

\* every LogViewer after its first render and effect: the stream is open
InitLog ==
  /\ logs = [v \in Viewers |-> <<>>]
  /\ connectionError = [v \in Viewers |-> FALSE]
  /\ closed = [v \in Viewers |-> FALSE]
  /\ published = 0
  /\ accepted = [v \in Viewers |-> 0]
  /\ lastEvent = "none"
  /\ skipped = FALSE

\* the consumer is connected and waits for its first record; nobody subscribed
InitPipe ==
  /\ consumerPc = "pull"
  /\ cur = "none"
  /\ offset = 0
  /\ attempts = 0
  /\ classification = "none"
  /\ classifiedCount = 0
  /\ malformedCount = 0
  /\ lostCount = 0
  /\ counters = [c \in Classifications |-> 0]
  /\ subscribers = {}
  /\ queue = [v \in Viewers |-> <<>>]

Init == InitList /\ InitBackend /\ InitLog /\ InitPipe

StatusNext ==
  \/ \E r \in BagToSet(statusReqs) : StatusServe(r)
  \/ \E r \in BagToSet(statusReqs) : StatusLost(r)
  \/ \E r \in BagToSet(statusReqs) : StatusDone(r)

\* the record list of AnomalyList
Next ==
  \/ PeriodicCheck
  \/ HandleRefresh
  \/ \E t \in Tabs : HandleTabChange(t)
  \/ \E f \in BagToSet(fetches) : \E data \in SUBSET Ids : FetchSuccess(f, data)
  \/ \E f \in BagToSet(fetches) : FetchFail(f)
  \/ StatusNext

Spec == Init /\ [][Next]_vars

\* the Slack panel of AnomalyList and the notification dispatcher
NextSlack ==
  \/ SyncToSlack
  \/ \E s \in BagToSet(syncs) : SyncSent(s)
  \/ \E s \in BagToSet(syncs) : SyncFailed(s)
  \/ ToggleAutoSend
  \/ \E t \in BagToSet(toggles) : ToggleDone(t)
  \/ \E t \in BagToSet(toggles) : ToggleFailed(t)
  \/ StatusNext
  \/ \E s \in BagToSet(syncs) : SyncServe(s)
  \/ \E s \in BagToSet(syncs) : SyncLost(s)
  \/ AutoTimer
  \/ SinkSuccess
  \/ SinkError
  \/ FailedRevert
  \/ \E t \in BagToSet(toggles) : ToggleServe(t)
  \/ \E t \in BagToSet(toggles) : ToggleLost(t)
  \/ \E id \in AnomalyIds : Ingest(id)

SpecSlack == Init /\ [][NextSlack]_vars

\* every request eventually returns (served or lost), the sink eventually
\* answers, and a continuation whose promise has settled eventually runs;
\* the status reads of the three callers are separate requests
FairSlack ==
  /\ WF_vars(\E s \in BagToSet(syncs) : SyncServe(s) \/ SyncLost(s))
  /\ WF_vars(SinkSuccess \/ SinkError)
  /\ WF_vars(\E s \in BagToSet(syncs) : SyncSent(s))
  /\ WF_vars(\E s \in BagToSet(syncs) : SyncFailed(s))
  /\ \A o \in {"effect", "sync", "toggle"} :
       /\ WF_vars(\E r \in StatusOf(o) : StatusServe(r) \/ StatusLost(r))
       /\ WF_vars(\E r \in StatusOf(o) : StatusDone(r))

SpecSlackFair == SpecSlack /\ FairSlack

\* the dashboard is opened while the back end already runs: auto-send is on
\* or off
InitTab ==
  /\ InitList
  /\ InitLog
  /\ InitPipe
  /\ anomalies = {}
  /\ sent_record_ids = {}
  /\ sent_count = 0
  /\ auto_send_enabled \in BOOLEAN
  /\ task_running = TRUE
  /\ dispatcher = "Idle"
  /\ batch = {}
  /\ delivered = [i \in AnomalyIds |-> 0]
  /\ lastFailed = {}

\* tab switches of AnomalyList next to manual sends that succeed
NextTab ==
  \/ \E t \in Tabs : HandleTabChange(t)
  \/ \E f \in BagToSet(fetches) : \E data \in SUBSET Ids : FetchSuccess(f, data)
  \/ StatusNext
  \/ SyncToSlack
  \/ \E s \in BagToSet(syncs) : SyncSent(s)
  \/ \E s \in BagToSet(syncs) : SyncServe(s)
  \/ SinkSuccess
  \/ \E id \in AnomalyIds : Ingest(id)

SpecTab == InitTab /\ [][NextTab]_vars

\* the LogViewers and the live stream
NextLog ==
  \/ PublishLog
  \/ \E d \in EventData : MalformedLog(d)
  \/ \E d \in EventData \cup {JsonOf(0)} : Ping(d)
  \/ \E v \in Viewers : HandleError(v)
  \/ \E v \in Viewers : Close(v)

SpecLog == Init /\ [][NextLog]_vars

\* the ingestion path and the subscribers of the Broadcast Hub
NextPipe ==
  \/ \E kind \in Kinds : Pull(kind)
  \/ ConsumerStep
  \/ \E v \in Viewers : Subscribe(v)
  \/ \E v \in Viewers : Unsubscribe(v)
  \/ \E v \in Viewers : Receive(v)

SpecPipe == Init /\ [][NextPipe]_vars

\* ================================================================== claims

\* C1: while the seen set is live, an id is found new by one completed
\* fetchData only: a completing fetchData never finds new an id that an
\* earlier completion already found new since the seen set was cleared.
C1_JudgedNewOnce ==
  [][\A f \in BagToSet(fetches) : \A data \in SUBSET Ids :
       FetchSuccess(f, data) => NewRecords(data, f.seen) \cap judged = {}]_vars

\* C2: at most one syncToSlack call and one send request are in flight; while
\* slackSending is true no trigger adds a send request or a call; a send
\* request appears only by a click made while slackSending is false; and a
\* trigger that reaches the dispatcher while it is Sending leaves the batch
\* in flight as it is.
C2_AtMostOneSend ==
  /\ [](SyncFlows <= 1 /\ SendRequests <= 1 /\ (SyncFlows = 1 <=> slackSending))
  /\ [][slackSending => SendRequests' <= SendRequests /\ SyncFlows' <= SyncFlows]_vars
  /\ [][SendRequests' > SendRequests => ~slackSending /\ SyncToSlack]_vars
  /\ [][dispatcher = "Sending" => batch' \in {batch, {}}]_vars

\* a manual send is in flight and the dispatcher is sending its batch
C2_Witness ==
  /\ slackSending
  /\ SendRequests = 1
  /\ dispatcher = "Sending"
  /\ \E s \in BagToSet(syncs) : s.phase = "srv"

\* C3: no id is delivered in more than one successful batch: a batch never
\* holds an id of sent_record_ids, no id was delivered twice, and the
\* dispatcher is never Sending an empty batch (nothing unsent, no sink call).
C3_NoDoubleDelivery ==
  /\ \A i \in AnomalyIds : delivered[i] <= 1
  /\ batch \cap sent_record_ids = {}
  /\ (dispatcher = "Sending" <=> batch # {})
  /\ \A i \in AnomalyIds : (delivered[i] = 1 <=> i \in sent_record_ids)

\* after a successful batch and then a failed one, a batch is being sent again
C3_Witness ==
  /\ sent_record_ids # {}
  /\ dispatcher = "Sending"
  /\ lastFailed # {}

\* C4: a send that fails leaves sent_record_ids and sent_count as they were,
\* the client handles the rejection (nothing escapes syncToSlack, the sending
\* flag is cleared, the shown status is kept), and the next send that starts
\* includes the ids of the failed batch.
C4_FailedSendKeepsState ==
  /\ [][dispatcher = "Sending" /\ dispatcher' # "Idle"
          => UNCHANGED <<sent_record_ids, sent_count>>]_vars
  /\ [][SinkError => dispatcher' = "Failed" /\ lastFailed' = batch
                     /\ UNCHANGED <<sent_record_ids, sent_count>>]_vars
  /\ [][(\E s \in BagToSet(syncs) : s.phase = "err" /\ syncs' = Remove(syncs, s))
          => ~uncaught' /\ ~slackSending' /\ slackStatus' = slackStatus]_vars
  /\ [][dispatcher # "Sending" /\ dispatcher' = "Sending"
          => lastFailed \subseteq batch']_vars
  /\ [](lastFailed \cap sent_record_ids = {})

\* the ids of a failed batch are being sent again on a manual trigger
C4_Witness ==
  /\ lastFailed # {}
  /\ dispatcher = "Sending"
  /\ lastFailed \subseteq batch
  /\ slackSending
  /\ \E s \in BagToSet(syncs) : s.phase = "srv"

\* C5: sent_count is the number of ids in sent_record_ids, in every state,
\* also while a batch is being sent and in every status snapshot taken.
C5_CountMatchesIds ==
  /\ sent_count = Cardinality(sent_record_ids)
  /\ \A r \in BagToSet(statusReqs) :
       r.phase = "resp" => r.snap.sent_records_count <= Cardinality(sent_record_ids)

\* a batch of two ids was marked and another send is in progress
C5_Witness ==
  /\ sent_count >= 2
  /\ dispatcher = "Sending"

\* the steps of toggleAutoSend: the click, the request being served or lost,
\* the continuation, and the status refresh it ends with
ToggleStep ==
  \/ ToggleAutoSend
  \/ \E t \in BagToSet(toggles) : ToggleServe(t) \/ ToggleLost(t)
                                  \/ ToggleDone(t) \/ ToggleFailed(t)
  \/ \E r \in BagToSet(statusReqs) :
       r.origin = "toggle" /\ (StatusServe(r) \/ StatusLost(r) \/ StatusDone(r))

\* C6: no step of an auto-send toggle changes sent_record_ids, sent_count,
\* the sending flag, the dispatcher's state or its batch; and a send that
\* starts without a manual trigger being served starts with auto-send on.
C6_ToggleFrame ==
  /\ [][ToggleStep => UNCHANGED <<sent_record_ids, sent_count, slackSending,
                                  dispatcher, batch, syncs>>]_vars
  /\ [][dispatcher # "Sending" /\ dispatcher' = "Sending" /\ syncs' = syncs
          => auto_send_enabled]_vars

\* auto-send was just switched off while a manual send is in progress
C6_Witness ==
  /\ slackSending
  /\ dispatcher = "Sending"
  /\ ~auto_send_enabled
  /\ \E t \in BagToSet(toggles) : t.phase = "ok" /\ ~t.newState

\* C7: the log buffer of a viewer never holds more than 100 entries, and
\* after n accepted 'log' events it holds the last min(n, 100) of them in
\* arrival order (the k-th accepted event carries record k).
C7_BoundedBuffer ==
  \A v \in Viewers :
    LET n == accepted[v]
        k == Min(n, MaxLogs)
    IN /\ Len(logs[v]) <= MaxLogs
       /\ logs[v] = [i \in 1..k |-> n - k + i]

\* a viewer has accepted more events than its buffer holds
C7_Witness ==
  \E v \in Viewers : accepted[v] > MaxLogs /\ Len(logs[v]) = MaxLogs

\* C8: once a viewer has closed its EventSource it stays closed, nothing is
\* added to its buffer and no error is flagged for it; every viewer still
\* open gets each published record; closing again changes nothing.
C8_NoDeliveryAfterClose ==
  /\ [][\A v \in Viewers : closed[v] =>
          /\ closed'[v]
          /\ logs'[v] = logs[v]
          /\ accepted'[v] = accepted[v]
          /\ connectionError'[v] = connectionError[v]]_vars
  /\ [][PublishLog => \A v \in Viewers : ~closed[v] =>
          /\ logs'[v] # logs[v]
          /\ logs'[v][Len(logs'[v])] = published']_vars
  /\ [][\A v \in Viewers : closed[v] /\ Close(v) => UNCHANGED vars]_vars

\* one viewer has left, the other has received a fourth record
C8_Witness ==
  \E v, w \in Viewers :
    /\ closed[v] /\ ~closed[w]
    /\ lastEvent = "log"
    /\ Len(logs[w]) >= 4
    /\ logs[v] = <<>>

\* C9: a 'log' event with empty or unparseable data leaves every buffer as
\* it is, and a well-formed 'log' event that comes after one is appended to
\* the buffer of every open viewer.
C9_MalformedSkipped ==
  /\ [][\A d \in EventData : MalformedLog(d) =>
          logs' = logs /\ accepted' = accepted]_vars
  /\ [][skipped /\ PublishLog => \A v \in Viewers : ~closed[v] =>
          /\ accepted'[v] = accepted[v] + 1
          /\ Len(logs'[v]) = Min(Len(logs[v]) + 1, MaxLogs)
          /\ logs'[v][Len(logs'[v])] = published + 1]_vars

\* a record was appended after a malformed event had been skipped
C9_Witness ==
  /\ skipped
  /\ lastEvent = "log"
  /\ \E v \in Viewers : ~closed[v] /\ logs[v] # <<>>

\* C10: a 'ping' event, well-formed or not, leaves every buffer as it is, and
\* a buffer gets an entry only in a step that dispatches a 'log' event.
C10_PingLeavesLogs ==
  /\ [][\A d \in EventData \cup {JsonOf(0)} : Ping(d) =>
          logs' = logs /\ accepted' = accepted]_vars
  /\ [][(\E v \in Viewers : logs'[v] # logs[v] /\ logs'[v] # <<>>)
          => lastEvent' = "log" /\ PublishLog]_vars

\* a keepalive arrived at a viewer whose buffer holds records
C10_Witness ==
  /\ lastEvent = "ping"
  /\ \E v \in Viewers : ~closed[v] /\ Len(logs[v]) >= 2

\* ------------------------------------------------------------------ C11
\* C11: a tab switch clears the seen-id set, leaves the notification channel's
\* state (auto_send_enabled, sent_record_ids, sent_count) unchanged and issues
\* no send request and no auto-send toggle request.
C11_TabSwitchFrame ==
  [][activeTab' # activeTab =>
       /\ seenRecordIds' = {}
       /\ UNCHANGED <<auto_send_enabled, sent_record_ids, sent_count>>
       /\ UNCHANGED <<syncs, toggles, slackSending>>]_vars

\* right after a switch away from a tab with seen ids, with a record already
\* sent to Slack and auto-send on
C11_Witness ==
  /\ seenRecordIds = {}
  /\ \E f \in BagToSet(fetches) : f.force /\ f.tab = activeTab /\ f.seen # {}
  /\ sent_record_ids # {}
  /\ sent_count > 0
  /\ auto_send_enabled

\* ------------------------------------------------------------------ C12
\* C12: between two tab switches no operation removes an id from the seen-id
\* set: every step that keeps the active tab keeps every id already seen.
\* (The Slack send and toggle handlers leave listVars unchanged.)
C12_SeenGrows ==
  [][activeTab' = activeTab => seenRecordIds \subseteq seenRecordIds']_vars

\* a fetch failed after two ids had been marked as seen, and they are kept
C12_Witness ==
  /\ error
  /\ retryCount = 1
  /\ Cardinality(seenRecordIds) >= 2

\* ------------------------------------------------------------------ C13
\* C13 as stated: in every reachable state the Aggregator snapshot's counts for
\* normal, anomaly and unidentified sum to the number of records classified
\* so far.
C13_CountsSumToClassified ==
  CountSum = classifiedCount

\* C13, amended: every record pulled is either skipped as malformed or
\* classified exactly once, and every classified record is counted exactly
\* once: the counts sum to the number of records classified so far, except
\* while the record just classified is being persisted or awaits step 4, when
\* the sum is exactly one less.
C13_CountsLagClassified ==
  /\ classifiedCount + malformedCount =
       offset - (IF consumerPc \in {"validate", "classify"} THEN 1 ELSE 0)
  /\ CountSum =
       classifiedCount - (IF consumerPc \in {"persist", "record"} THEN 1 ELSE 0)

\* one record was lost to persistence and counted, one was skipped, and the
\* third is classified and waits for a persistence retry
C13_Witness ==
  /\ consumerPc = "persist"
  /\ attempts >= 1
  /\ lostCount >= 1
  /\ malformedCount >= 1
  /\ classifiedCount = 2
  /\ CountSum = 1

\* ------------------------------------------------------------------ C14
\* C14: a slow subscriber never blocks publication: whatever the queues hold,
\* the ingestion path's next step is enabled (publish included), and a publish
\* puts the record at the end of the queue of every active subscriber, also
\* when another subscriber's queue is full.
C14_SlowSubscriberNeverBlocks ==
  /\ [](consumerPc # "pull" => ENABLED ConsumerStep)
  /\ [][Forward => \A v \in subscribers :
                     /\ queue'[v] # <<>>
                     /\ queue'[v][Len(queue'[v])] = offset
                     /\ Len(queue'[v]) <= QueueCap]_vars

\* the last record was published while one subscriber's queue was full and
\* had lost its oldest record; the other subscriber, which keeps up, got it
C14_Witness ==
  /\ consumerPc = "pull"
  /\ offset = MaxRecords
  /\ \E slow, fast \in subscribers :
       /\ slow # fast
       /\ Len(queue[slow]) = QueueCap
       /\ queue[slow][QueueCap] = offset
       /\ queue[slow][1] > 1
       /\ queue[fast] = <<offset>>

\* ------------------------------------------------------------------ C15
\* C15: whenever the record list is shown (loading is false and there are
\* records on display), the records displayed were returned by a fetch made
\* for the currently active tab.
C15_ShownForActiveTab ==
  (~loading /\ anomalyParams # {}) => shownFor = activeTab

\* ------------------------------------------------------------------ C16
\* C16: a periodic check whose response holds no id outside the seen set
\* changes neither the displayed list, nor the seen-id set, nor the error
\* message, nor the retry count.
C16_PeriodicNoNewChangesNothing ==
  [][\A f \in BagToSet(fetches) : \A data \in SUBSET Ids :
       (FetchSuccess(f, data) /\ ~f.force /\ data \subseteq seenRecordIds)
         => UNCHANGED <<anomalyParams, seenRecordIds, error, retryCount>>]_vars

\* ------------------------------------------------------------------ C17
\* C17: after any fetchData call whose request succeeds, periodic or forced,
\* the retry count is 0 and the error message is cleared.
C17_SuccessResetsRetry ==
  [][\A f \in BagToSet(fetches) : \A data \in SUBSET Ids :
       FetchSuccess(f, data) => (retryCount' = 0 /\ ~error')]_vars

\* ------------------------------------------------------------------ C18
\* C18: a fetch that fails sets the error message, increases the retry count
\* by exactly one, and leaves the displayed list and the seen-id set unchanged.
C18_FailedFetchFrame ==
  [][\A f \in BagToSet(fetches) :
       FetchFail(f) => /\ error'
                       /\ retryCount' = retryCount + 1
                       /\ UNCHANGED <<anomalyParams, seenRecordIds>>]_vars

\* two fetches failed in a row while a list was on display
C18_Witness ==
  /\ error
  /\ retryCount = MaxRetry
  /\ anomalyParams # {}
  /\ anomalyParams \subseteq seenRecordIds

\* ------------------------------------------------------------------ C19
\* C19: every manual send that starts eventually ends with the client back
\* in the not-sending state, whether the send succeeds, the send fails or the
\* status refresh after it fails, provided each request eventually returns;
\* the send button is then enabled again.
C19_SendEventuallyEnds ==
  slackSending ~> (~slackSending /\ SendButtonEnabled)

\* a manual send was delivered, its status refresh came back, the flow is over
C19_Witness ==
  /\ ~slackSending
  /\ SyncFlows = 0
  /\ sent_count > 0
  /\ slackStatus # None
  /\ slackStatus.sent_records_count = sent_count
  /\ ~auto_send_enabled
  /\ toggles = EmptyBag

\* ------------------------------------------------------------------ C20
\* C20: the loading flag is true exactly while at least one forced fetch is
\* in flight.
C20_LoadingIffForcedPending ==
  loading <=> (\E f \in BagToSet(fetches) : f.force)

\* ------------------------------------------------------------------ C21
\* C21: the sent count shown to the user never decreases: no step replaces
\* the displayed notification status by a snapshot with a smaller count.
C21_ShownCountNeverDecreases ==
  [][slackStatus'.sent_records_count >= slackStatus.sent_records_count]_vars

\* ------------------------------------------------------------------ C22
\* C22: in a mounted LogViewer the connection-error flag becomes true on a
\* stream error and becomes false again only when a well-formed 'ping' event
\* is received; 'log' events and unparseable pings leave it unchanged, and a
\* well-formed ping clears it.
C22_ErrorUntilValidPing ==
  /\ [][\A v \in Viewers : HandleError(v) => connectionError'[v]]_vars
  /\ [][\A v \in Viewers :
          (connectionError[v] /\ ~connectionError'[v] /\ ~closed'[v])
            => Ping(JsonOf(0))]_vars
  /\ [][(PublishLog \/ \E d \in EventData : MalformedLog(d) \/ Ping(d))
          => connectionError' = connectionError]_vars
  /\ [][Ping(JsonOf(0)) =>
          \A v \in Viewers : ~closed[v] => ~connectionError'[v]]_vars

\* after a stream error at one viewer an unparseable ping arrived: its flag is
\* still set, the other viewer's is not
C22_Witness ==
  /\ lastEvent = "ping"
  /\ \E v, w \in Viewers :
       /\ ~closed[v] /\ ~closed[w]
       /\ connectionError[v]
       /\ ~connectionError[w]
       /\ logs[v] # <<>>

====
